---- MODULE Spec2Model ----
(***************************************************************************)
(* Customer-transaction ETL pipeline: the cleaners of data_cleaner.py, the *)
(* SQLite store of database.py and the orchestration of etl_pipeline.py.   *)
(*                                                                         *)
(* A DataFrame is a sequence of rows; every row carries the label it got   *)
(* from read_csv (field "index"), which boolean filtering preserves.  Text *)
(* cells are sequences of one-character strings, a missing cell is NaN.    *)
(* Amounts and prices are integers (cents).                                *)
(***************************************************************************)
EXTENDS Integers, Sequences, FiniteSets, TLC

VARIABLES
    pc,                   \* position of ETLPipeline.run
    runs,                 \* number of runs started so far
    raw_customers,        \* customers_df as extracted
    raw_transactions,     \* transactions_df as extracted
    raw_products,         \* products_df as extracted
    cleaned_customers,    \* result of clean_customers_data
    dedup_transactions,   \* clean_transactions_data after drop_duplicates
    cleaned_transactions, \* result of clean_transactions_data
    cleaned_products,     \* result of clean_products_data
    valid_transactions,   \* first result of validate_data_integrity
    integrity_report,     \* second result of validate_data_integrity
    db,                   \* the SQLite file: table definitions and rows
    connection,           \* DatabaseManager.connection
    stages,               \* stages of the current run, in execution order
    raised,               \* first exception raised in the current run
    propagated,           \* exception that left ETLPipeline.run
    failed_in,            \* operation of the current run that raised
    snapshot,             \* the store as the last successful run left it
    completed,            \* some run has completed successfully
    same_input            \* this run re-reads the input of the run before

vars == <<pc, runs, raw_customers, raw_transactions, raw_products,
          cleaned_customers, dedup_transactions, cleaned_transactions,
          cleaned_products, valid_transactions, integrity_report, db,
          connection, stages, raised, propagated, failed_in, snapshot,
          completed, same_input>>

run_vars == <<raw_customers, raw_transactions, raw_products>>

clean_vars == <<cleaned_customers, dedup_transactions, cleaned_transactions,
                cleaned_products, valid_transactions, integrity_report>>

(***************************************************************************)
(* Bounds of the model.                                                    *)
(***************************************************************************)
MaxRuns == 2

MaxCustomers == 2

MaxTransactions == 2

MaxProducts == 1

MaxRawTransactions == 2

MaxRawCustomers == 1

MaxCalls == 3

MaxRawProducts == 1

(***************************************************************************)
(* Text.                                                                   *)
(***************************************************************************)
NaN == <<"NaN">>

EmptyStr == <<>>

LowerCase == <<"a","b","c","d","e","f","g","h","i","j","k","l","m",
               "n","o","p","q","r","s","t","u","v","w","x","y","z">>

UpperCase == <<"A","B","C","D","E","F","G","H","I","J","K","L","M",
               "N","O","P","Q","R","S","T","U","V","W","X","Y","Z">>

Digits == <<"0","1","2","3","4","5","6","7","8","9">>

Range(s) == {s[i] : i \in DOMAIN s}

Alpha == Range(LowerCase) \cup Range(UpperCase)

Digit == Range(Digits)

DigitVal(c) == (CHOOSE i \in DOMAIN Digits : Digits[i] = c) - 1

isna(v) == v = NaN

AllIn(s, chars) == \A i \in DOMAIN s : s[i] \in chars

\* a cell of a column that read_csv typed int64: the number, not its text
Int64(digits) == <<"int64">> \o digits

\* isinstance(v, str)
isinstance_str(v) == v = EmptyStr \/ v[1] \notin {"NaN", "int64"}

(***************************************************************************)
(* validate_email: ^[a-zA-Z0-9._%+-]+@[a-zA-Z0-9.-]+\.[a-zA-Z]{2,}$         *)
(***************************************************************************)
LocalChars == Alpha \cup Digit \cup {".", "_", "%", "+", "-"}

DomainChars == Alpha \cup Digit \cup {".", "-"}

MinTld == 2

EmailPattern(s) ==
    \E at \in DOMAIN s : \E dot \in DOMAIN s :
        /\ at < dot
        /\ s[at] = "@"
        /\ s[dot] = "."
        /\ at > 1
        /\ AllIn(SubSeq(s, 1, at - 1), LocalChars)
        /\ dot > at + 1
        /\ AllIn(SubSeq(s, at + 1, dot - 1), DomainChars)
        /\ Len(s) - dot >= MinTld
        /\ AllIn(SubSeq(s, dot + 1, Len(s)), Alpha)

validate_email(email) ==
    IF isna(email) \/ email = EmptyStr THEN FALSE ELSE EmailPattern(email)

(***************************************************************************)
(* validate_date: datetime.strptime(str(date_str), '%Y-%m-%d').            *)
(* %Y is \d\d\d\d, %m is 1[0-2]|0[1-9]|[1-9], %d is                        *)
(* 3[0-1]|[1-2]\d|0[1-9]|[1-9]| [1-9]; the day must exist in the month.    *)
(***************************************************************************)
NaT == [y |-> 0, m |-> 0, d |-> 0]

Num(s) == IF Len(s) = 0 THEN 0
          ELSE IF Len(s) = 1 THEN DigitVal(s[1])
          ELSE IF Len(s) = 2 THEN 10 * DigitVal(s[1]) + DigitVal(s[2])
          ELSE IF Len(s) = 3
               THEN 100 * DigitVal(s[1]) + 10 * DigitVal(s[2]) + DigitVal(s[3])
          ELSE 1000 * DigitVal(s[1]) + 100 * DigitVal(s[2])
               + 10 * DigitVal(s[3]) + DigitVal(s[4])

YearDirective(s) == Len(s) = 4 /\ AllIn(s, Digit)

MonthDirective(s) ==
    /\ Len(s) \in {1, 2}
    /\ AllIn(s, Digit)
    /\ Num(s) \in 1..12

DayDigits(s) == IF Len(s) = 2 /\ s[1] = " " THEN Tail(s) ELSE s

DayDirective(s) ==
    /\ Len(s) \in {1, 2}
    /\ AllIn(DayDigits(s), Digit)
    /\ Num(DayDigits(s)) \in 1..31

IsLeap(y) == (y % 4 = 0 /\ y % 100 # 0) \/ y % 400 = 0

DaysInMonth(y, m) ==
    IF m = 2 THEN (IF IsLeap(y) THEN 29 ELSE 28)
    ELSE IF m \in {4, 6, 9, 11} THEN 30 ELSE 31

Dashes(s) == {i \in DOMAIN s : s[i] = "-"}

strptime(s) ==
    IF \E i \in Dashes(s) : \E j \in Dashes(s) :
           /\ i < j
           /\ YearDirective(SubSeq(s, 1, i - 1))
           /\ MonthDirective(SubSeq(s, i + 1, j - 1))
           /\ DayDirective(SubSeq(s, j + 1, Len(s)))
    THEN LET i == CHOOSE i \in Dashes(s) : \A k \in Dashes(s) : i <= k
             j == CHOOSE j \in Dashes(s) \ {i} :
                      \A k \in Dashes(s) \ {i} : j <= k
             y == Num(SubSeq(s, 1, i - 1))
             m == Num(SubSeq(s, i + 1, j - 1))
             d == Num(DayDigits(SubSeq(s, j + 1, Len(s))))
         IN IF y >= 1 /\ d <= DaysInMonth(y, m)
            THEN [y |-> y, m |-> m, d |-> d]
            ELSE NaT
    ELSE NaT

validate_date(date_str) ==
    IF isna(date_str) \/ date_str = EmptyStr THEN FALSE
    ELSE strptime(date_str) # NaT

\* pd.to_datetime: the calendar date a date string denotes, NaT otherwise
to_datetime(s) == IF isna(s) THEN NaT ELSE strptime(s)

(***************************************************************************)
(* DataFrame helpers.                                                      *)
(***************************************************************************)
RECURSIVE KeepAt(_, _, _)
KeepAt(df, keep, i) ==
    IF i > Len(df) THEN <<>>
    ELSE (IF i \in keep THEN <<df[i]>> ELSE <<>>) \o KeepAt(df, keep, i + 1)

\* df[mask]: the rows whose position is in the mask, in their order
Filter(df, keep) == KeepAt(df, keep, 1)

Column(df, col) == {df[i][col] : i \in DOMAIN df}

(***************************************************************************)
(* clean_customers_data                                                    *)
(***************************************************************************)
Unknown == <<"U","n","k","n","o","w","n">>

fillna(v, default) == IF isna(v) THEN default ELSE v

clean_customers_data(df) ==
    LET valid_email_mask == {i \in DOMAIN df : validate_email(df[i].email)}
        with_email == Filter(df, valid_email_mask)
        converted ==
            [i \in DOMAIN with_email |->
                [with_email[i] EXCEPT
                    !.first_name = fillna(@, Unknown),
                    !.last_name = fillna(@, Unknown),
                    !.registration_date = to_datetime(@)]]
    IN Filter(converted,
              {i \in DOMAIN converted : converted[i].registration_date # NaT})

(***************************************************************************)
(* clean_transactions_data                                                 *)
(***************************************************************************)
DedupKey(r) == <<r.customer_id, r.product_id, r.transaction_date, r.amount>>

drop_duplicates_keep_last(df) ==
    Filter(df, {i \in DOMAIN df :
                   \A j \in DOMAIN df : j > i => DedupKey(df[j]) # DedupKey(df[i])})

\* DataFrame.drop_duplicates(subset=...), keep='first' by default
drop_duplicates(df) ==
    Filter(df, {i \in DOMAIN df :
                   \A j \in DOMAIN df : j < i => DedupKey(df[j]) # DedupKey(df[i])})

\* lines 111-122: the date-valid rows, transaction_date converted
with_valid_dates(df) ==
    LET valid_date_mask ==
            {i \in DOMAIN df : validate_date(df[i].transaction_date)}
        dated == Filter(df, valid_date_mask)
    IN [i \in DOMAIN dated |->
           [dated[i] EXCEPT !.transaction_date = to_datetime(@)]]

\* lines 124-128
deduplicated(df) == drop_duplicates(with_valid_dates(df))

\* the filter of line 135 on quantity alone
clean_transactions_data_quantity_only(df) ==
    LET d == deduplicated(df)
    IN Filter(d, {i \in DOMAIN d : d[i].quantity > 0})

clean_transactions_data(df) ==
    LET d == deduplicated(df)
    IN Filter(d, {i \in DOMAIN d : d[i].quantity > 0 /\ d[i].amount > 0})

(***************************************************************************)
(* standardize_category and clean_products_data                            *)
(***************************************************************************)
Lower(c) == IF c \in Range(UpperCase)
            THEN LowerCase[CHOOSE i \in DOMAIN UpperCase : UpperCase[i] = c]
            ELSE c

Upper(c) == IF c \in Range(LowerCase)
            THEN UpperCase[CHOOSE i \in DOMAIN LowerCase : LowerCase[i] = c]
            ELSE c

lower(s) == [i \in DOMAIN s |-> Lower(s[i])]

\* str.title(): a letter that follows a non-letter is upper-cased, the others
\* are lower-cased
title(s) == [i \in DOMAIN s |->
                IF i = 1 \/ s[i - 1] \notin Alpha THEN Upper(s[i]) ELSE Lower(s[i])]

RECURSIVE lstrip(_)
lstrip(s) == IF Len(s) > 0 /\ s[1] = " " THEN lstrip(Tail(s)) ELSE s

RECURSIVE rstrip(_)
rstrip(s) == IF Len(s) > 0 /\ s[Len(s)] = " "
             THEN rstrip(SubSeq(s, 1, Len(s) - 1)) ELSE s

strip(s) == rstrip(lstrip(s))

Electronics == <<"E","l","e","c","t","r","o","n","i","c","s">>

Sports == <<"S","p","o","r","t","s">>

OfficeSupplies == <<"O","f","f","i","c","e"," ","S","u","p","p","l","i","e","s">>

UnknownProduct == <<"U","n","k","n","o","w","n"," ","P","r","o","d","u","c","t">>

\* the dict literal of lines 157-165 as its key/value pairs
category_mapping ==
    { <<<<"e","l","e","c","t","r","o","n","i","c","s">>, Electronics>>,
      <<<<"E","L","E","C","T","R","O","N","I","C","S">>, Electronics>>,
      <<<<"s","p","o","r","t","s">>, Sports>>,
      <<<<"S","P","O","R","T","S">>, Sports>>,
      <<<<"o","f","f","i","c","e"," ","s","u","p","p","l","i","e","s">>, OfficeSupplies>>,
      <<<<"O","F","F","I","C","E"," ","S","U","P","P","L","I","E","S">>, OfficeSupplies>>,
      <<<<"o","f","f","i","c","e","_","s","u","p","p","l","i","e","s">>, OfficeSupplies>> }

\* the lookup without lower()
standardize_category_case_sensitive(category) ==
    IF isna(category) THEN Unknown
    ELSE LET c == strip(category)
             hits == {kv \in category_mapping : kv[1] = c}
         IN IF hits # {} THEN (CHOOSE kv \in hits : TRUE)[2] ELSE title(c)

\* without the branch for a missing value
standardize_category_keeping_missing(category) ==
    IF isna(category) THEN category
    ELSE LET c == strip(category)
             hits == {kv \in category_mapping : kv[1] = lower(c)}
         IN IF hits # {} THEN (CHOOSE kv \in hits : TRUE)[2] ELSE title(c)

standardize_category(category) ==
    IF isna(category) THEN Unknown
    ELSE LET c == strip(category)
             hits == {kv \in category_mapping : kv[1] = lower(c)}
         IN IF hits # {} THEN (CHOOSE kv \in hits : TRUE)[2] ELSE title(c)

\* pd.to_numeric(errors='coerce') on the price cell: an optionally signed run
\* of digits is that number, anything else is NaN
IsNumeric(s) ==
    /\ ~isna(s)
    /\ LET body == IF Len(s) > 0 /\ s[1] = "-" THEN Tail(s) ELSE s
       IN Len(body) \in 1..4 /\ AllIn(body, Digit)

to_numeric(s) == IF s[1] = "-" THEN 0 - Num(Tail(s)) ELSE Num(s)

clean_products_data(df) ==
    LET standardized ==
            [i \in DOMAIN df |->
                [df[i] EXCEPT
                    !.category = standardize_category(@),
                    !.product_name = fillna(@, UnknownProduct)]]
        priced == {i \in DOMAIN df :
                      IsNumeric(df[i].price) /\ to_numeric(df[i].price) > 0}
        kept == Filter(standardized, priced)
    IN [i \in DOMAIN kept |-> [kept[i] EXCEPT !.price = to_numeric(@)]]

(***************************************************************************)
(* validate_data_integrity                                                 *)
(***************************************************************************)
validate_data_integrity_customers_only(customers_df, transactions_df, products_df) ==
    LET valid_customer_ids == Column(customers_df, "customer_id")
        valid_product_ids == Column(products_df, "product_id")
        T == transactions_df
        orphaned_customers ==
            Filter(T, {i \in DOMAIN T : T[i].customer_id \notin valid_customer_ids})
        orphaned_products ==
            Filter(T, {i \in DOMAIN T : T[i].product_id \notin valid_product_ids})
        valid ==
            Filter(T, {i \in DOMAIN T : T[i].customer_id \in valid_customer_ids})
    IN [valid_transactions |-> valid,
        integrity_report |->
            [orphaned_customer_transactions |-> Len(orphaned_customers),
             orphaned_product_transactions |-> Len(orphaned_products),
             valid_transactions |-> Len(valid),
             total_transactions |-> Len(T)]]

validate_data_integrity_exclusive_counts(customers_df, transactions_df, products_df) ==
    LET valid_customer_ids == Column(customers_df, "customer_id")
        valid_product_ids == Column(products_df, "product_id")
        T == transactions_df
        orphaned_customers ==
            Filter(T, {i \in DOMAIN T : T[i].customer_id \notin valid_customer_ids})
        orphaned_products ==
            Filter(T, {i \in DOMAIN T :
                          /\ T[i].customer_id \in valid_customer_ids
                          /\ T[i].product_id \notin valid_product_ids})
        valid ==
            Filter(T, {i \in DOMAIN T :
                          /\ T[i].customer_id \in valid_customer_ids
                          /\ T[i].product_id \in valid_product_ids})
    IN [valid_transactions |-> valid,
        integrity_report |->
            [orphaned_customer_transactions |-> Len(orphaned_customers),
             orphaned_product_transactions |-> Len(orphaned_products),
             valid_transactions |-> Len(valid),
             total_transactions |-> Len(T)]]

validate_data_integrity(customers_df, transactions_df, products_df) ==
    LET valid_customer_ids == Column(customers_df, "customer_id")
        valid_product_ids == Column(products_df, "product_id")
        T == transactions_df
        orphaned_customers ==
            Filter(T, {i \in DOMAIN T : T[i].customer_id \notin valid_customer_ids})
        orphaned_products ==
            Filter(T, {i \in DOMAIN T : T[i].product_id \notin valid_product_ids})
        valid ==
            Filter(T, {i \in DOMAIN T :
                          /\ T[i].customer_id \in valid_customer_ids
                          /\ T[i].product_id \in valid_product_ids})
    IN [valid_transactions |-> valid,
        integrity_report |->
            [orphaned_customer_transactions |-> Len(orphaned_customers),
             orphaned_product_transactions |-> Len(orphaned_products),
             valid_transactions |-> Len(valid),
             total_transactions |-> Len(T)]]

(***************************************************************************)
(* DatabaseManager: the store.  A table definition is "absent", "schema"   *)
(* (created by create_schema, with its constraints) or "pandas" (created   *)
(* by DataFrame.to_sql, columns only).                                     *)
(***************************************************************************)
BaseTables == {"customers", "products", "transactions"}

Tables == BaseTables \cup {"customer_revenue"}

EmptyStore ==
    [defs |-> [t \in Tables |-> "absent"],
     customers |-> <<>>,
     products |-> <<>>,
     transactions |-> <<>>,
     customer_revenue |-> {}]

\* DatabaseManager.connection is "none" (None), "open" or "closed" (a
\* connection that close() was called on).  connect opens a new connection.
connect(conn) == "open"

\* a finally clause that does not close
disconnect_skipped(conn) == conn

\* disconnect: close() on the connection held, if any
disconnect(conn) == IF conn = "none" THEN conn ELSE "closed"

\* CREATE TABLE IF NOT EXISTS, four times
create_schema(store) ==
    [store EXCEPT !.defs =
        [t \in Tables |-> IF store.defs[t] = "absent" THEN "schema" ELSE store.defs[t]]]

\* index=False: the DataFrame's labels are not written
WithoutIndex(df) ==
    [i \in DOMAIN df |-> [c \in (DOMAIN df[i]) \ {"index"} |-> df[i][c]]]

to_sql_append(store, table, df) ==
    [store EXCEPT !.defs[table] = "pandas",
                  ![table] = store[table] \o WithoutIndex(df)]

\* DataFrame.to_sql(table, if_exists='replace', index=False): DROP TABLE,
\* CREATE TABLE from the frame's columns, INSERT every row
to_sql(store, table, df) ==
    [store EXCEPT !.defs[table] = "pandas", ![table] = WithoutIndex(df)]

load_customers(store, customers_df) == to_sql(store, "customers", customers_df)

load_products(store, products_df) == to_sql(store, "products", products_df)

load_transactions(store, transactions_df) ==
    to_sql(store, "transactions", transactions_df)

RECURSIVE SumAmount(_)
SumAmount(rows) ==
    IF rows = <<>> THEN 0 ELSE Head(rows).amount + SumAmount(Tail(rows))

RowsOf(rows, c) == Filter(rows, {i \in DOMAIN rows : rows[i].customer_id = c})

\* the same SELECT without its GROUP BY column in the aggregates
revenue_select_ungrouped(store) ==
    {[customer_id |-> c,
      total_amount |-> SumAmount(store.transactions),
      transaction_count |-> Len(store.transactions)] :
        c \in Column(store.transactions, "customer_id")}

\* SELECT customer_id, SUM(amount), COUNT(*) FROM transactions GROUP BY customer_id
revenue_select(store) ==
    {[customer_id |-> c,
      total_amount |-> SumAmount(RowsOf(store.transactions, c)),
      transaction_count |-> Len(RowsOf(store.transactions, c))] :
        c \in Column(store.transactions, "customer_id")}

\* INSERT OR IGNORE: a row that holds the primary key is kept
calculate_customer_revenue_ignoring(store) ==
    LET selected == revenue_select(store)
        held == {r.customer_id : r \in store.customer_revenue}
    IN [store EXCEPT !.customer_revenue =
           @ \cup {n \in selected : n.customer_id \notin held}]

calculate_customer_revenue_accumulating(store) ==
    LET selected == revenue_select(store)
        old(c) == {r \in store.customer_revenue : r.customer_id = c}
    IN [store EXCEPT !.customer_revenue =
           {r \in @ : r.customer_id \notin Column(store.transactions, "customer_id")}
           \cup {[n EXCEPT !.total_amount =
                     IF old(n.customer_id) = {} THEN @
                     ELSE @ + (CHOOSE r \in old(n.customer_id) : TRUE).total_amount] :
                   n \in selected}]

\* INSERT OR REPLACE INTO customer_revenue ... : a selected row replaces the
\* row that holds its primary key, every other row stays
calculate_customer_revenue(store) ==
    LET selected == revenue_select(store)
        replaced == {r.customer_id : r \in selected}
    IN [store EXCEPT !.customer_revenue =
           {r \in @ : r.customer_id \notin replaced} \cup selected]

(***************************************************************************)
(* ETLPipeline.load_data, as the store it leaves.  fail_at names the       *)
(* operation that raises ("none": no operation does).  A to_sql that       *)
(* raises does so before its DROP TABLE or, when emptied, after its CREATE *)
(* TABLE (sqlite3 commits DDL at once) with its INSERT rolled back.        *)
(***************************************************************************)
LoadOperations ==
    <<"connect", "create_schema", "load_customers", "load_products",
      "load_transactions", "calculate_customer_revenue">>

Before(fail_at, op) ==
    \E i \in DOMAIN LoadOperations : \E j \in DOMAIN LoadOperations :
        /\ LoadOperations[i] = fail_at
        /\ LoadOperations[j] = op
        /\ i <= j

\* the store after operation op, given the store before it and the store the
\* operation leaves when it succeeds and when it raises
Step(fail_at, op, before, succeeded, raising) ==
    IF fail_at = op THEN raising
    ELSE IF Before(fail_at, op) THEN before
    ELSE succeeded

load_data(store, customers_df, transactions_df, products_df, fail_at, emptied) ==
    LET s1 == Step(fail_at, "create_schema", store, create_schema(store), store)
        s2 == Step(fail_at, "load_customers", s1,
                   load_customers(s1, customers_df),
                   IF emptied THEN load_customers(s1, <<>>) ELSE s1)
        s3 == Step(fail_at, "load_products", s2,
                   load_products(s2, products_df),
                   IF emptied THEN load_products(s2, <<>>) ELSE s2)
        s4 == Step(fail_at, "load_transactions", s3,
                   load_transactions(s3, transactions_df),
                   IF emptied THEN load_transactions(s3, <<>>) ELSE s3)
    IN Step(fail_at, "calculate_customer_revenue", s4,
            calculate_customer_revenue(s4), s4)

(***************************************************************************)
(* Inputs: the CSV files a run finds in its input directory.               *)
(***************************************************************************)
GoodEmail == <<"a","n","n","@","b",".","c","o">>

OtherEmail == <<"b","o","b","@","b",".","c","o">>

NoAtEmail == <<"a","n","n",".","b",".","c","o">>

ShortTldEmail == <<"a","n","n","@","b",".","c">>

FirstName == <<"A","n","n">>

IsoDate == <<"2","0","2","4","-","0","1","-","0","5">>

UnpaddedDate == <<"2","0","2","4","-","1","-","5">>

ImpossibleDate == <<"2","0","2","4","-","0","2","-","3","0">>

Price == <<"1","0">>

ZeroPrice == <<"0">>

TextPrice == <<"a","b","c">>

Category == <<"S","P","O","R","T","S">>

ProductName == <<"B","a","l","l">>

\* the frames of at most n rows over the given cells, labelled 0, 1, ...
Frames(cells, n) ==
    UNION {{[i \in 1..k |-> f[i] @@ [index |-> i - 1]] : f \in [1..k -> cells]} :
              k \in 0..n}

CustomerCells(emails, dates) ==
    [customer_id : {1, 2}, first_name : {FirstName}, last_name : {NaN},
     email : emails, registration_date : dates]

TransactionCells(products, dates, quantities, amounts) ==
    [customer_id : {1, 2}, product_id : products, transaction_date : dates,
     quantity : quantities, amount : amounts]

ProductCells(products, prices) ==
    [product_id : products, product_name : {ProductName}, category : {Category},
     price : prices]

RunCustomers ==
    Frames({c \in CustomerCells({GoodEmail, NoAtEmail}, {IsoDate}) :
               c.email = NoAtEmail => c.customer_id = 2},
           MaxCustomers)

RunTransactions ==
    Frames({c \in TransactionCells({1}, {IsoDate}, {1}, {5, 7}) :
               c.amount = 7 => c.customer_id = 1},
           MaxTransactions)

RunProducts == Frames(ProductCells({1}, {Price}), MaxProducts)

\* input directories that hold one customer's rows and the product sold
OneCustomerCustomers ==
    Frames({c \in CustomerCells({GoodEmail}, {IsoDate}) : c.customer_id = 1},
           MaxCustomers)

OneCustomerTransactions ==
    Frames({c \in TransactionCells({1}, {IsoDate}, {1}, {5, 7}) : c.customer_id = 1},
           MaxTransactions)

\* the product file holds product 1 or no row
OneCustomerProducts ==
    {f \in Frames(ProductCells({1}, {Price}), MaxProducts) : Len(f) <= 1}

\* input directories that differ in their transactions file only: both
\* customers and the product are on file
BothCustomers ==
    {f \in Frames(CustomerCells({GoodEmail, OtherEmail}, {IsoDate}), 2) :
        /\ Len(f) = 2
        /\ f[1].customer_id = 1 /\ f[1].email = GoodEmail
        /\ f[2].customer_id = 2 /\ f[2].email = OtherEmail}

ProductOnFile ==
    {f \in Frames(ProductCells({1}, {Price}), MaxProducts) : Len(f) = 1}

\* the frames the cleaners are exercised on
RawCustomers ==
    Frames({c \in CustomerCells({GoodEmail, NoAtEmail}, {IsoDate, ImpossibleDate}) :
               /\ c.customer_id = 2 => (c.email = GoodEmail /\ c.registration_date = IsoDate)
               /\ c.email = GoodEmail \/ c.registration_date = IsoDate},
           MaxRawCustomers)

\* a plain row for every customer and product and, for customer 1 and
\* product 1, the rows that differ from the plain row in one cell
RawTransactions ==
    Frames({c \in TransactionCells({1, 2}, {IsoDate, UnpaddedDate, ImpossibleDate},
                                   {0, 1}, {0, 5}) :
               \/ c.transaction_date = IsoDate /\ c.quantity = 1 /\ c.amount = 5
               \/ /\ c.customer_id = 1
                  /\ c.product_id = 1
                  /\ \/ c.quantity = 1 /\ c.amount = 5
                     \/ c.transaction_date = IsoDate /\ c.quantity = 1
                     \/ c.transaction_date = IsoDate /\ c.amount = 5},
           MaxRawTransactions)

RawProducts ==
    Frames({c \in ProductCells({1, 2}, {Price, ZeroPrice}) :
               c.price = ZeroPrice => c.product_id = 1},
           MaxRawProducts)

\* the spellings of a word in every mix of letter case
RECURSIVE CaseVariants(_)
CaseVariants(word) ==
    IF word = <<>> THEN {<<>>}
    ELSE {<<c>> \o v : c \in {Lower(word[1]), Upper(word[1])},
                       v \in CaseVariants(Tail(word))}

Toys == <<"t","o","y","s">>

HomeDecor == <<"h","o","m","e"," ","d","e","c","o","r">>

OfficeUnderscored ==
    <<"o","f","f","i","c","e","_","s","u","p","p","l","i","e","s">>

\* the category cells of a products file: the known categories and unknown
\* ones in several spellings, padded with blanks, and the missing cell
Categories ==
    CaseVariants(Sports) \cup CaseVariants(Toys)
    \cup UNION {{lower(w), [i \in DOMAIN w |-> Upper(w[i])], title(w)} :
                  w \in {Electronics, OfficeSupplies, OfficeUnderscored, HomeDecor}}
    \cup {<<" ">> \o lower(Sports), <<" ">> \o Sports, Toys \o <<" ">>, <<" ">> \o Toys \o <<" ">>}
    \cup {NaN}

CategoryCells ==
    [product_id : {1}, product_name : {ProductName}, category : Categories,
     price : {Price}]
    \cup [product_id : {1}, product_name : {ProductName, NaN},
          category : {NaN, Category}, price : {Price, ZeroPrice}]

CategoryProducts == Frames(CategoryCells, MaxRawProducts)

\* input directories of one product whose customers file holds a row with
\* a bad email and whose transactions file may hold rows with a quantity or
\* an amount of zero
QualityCustomers ==
    {f \in Frames({c \in CustomerCells({GoodEmail, NoAtEmail}, {IsoDate}) :
                      c.email = GoodEmail <=> c.customer_id = 1},
                  2) :
        \E i \in DOMAIN f : f[i].email = NoAtEmail}

QualityTransactions ==
    Frames({c \in TransactionCells({1}, {IsoDate}, {0, 1}, {0, 5}) :
               /\ c.customer_id = 1
               /\ c.quantity = 1 \/ c.amount = 5},
           MaxTransactions)

NumericEmail == Int64(<<"1","2","3">>)

\* customers files whose email column read_csv typed as text (every cell a
\* str or missing) or as numbers (every cell a number)
RowCustomers ==
    {f \in Frames(CustomerCells({GoodEmail, NoAtEmail, NaN, NumericEmail},
                                {IsoDate, ImpossibleDate}),
                  MaxRawCustomers) :
        \/ \A i \in DOMAIN f : isna(f[i].email) \/ isinstance_str(f[i].email)
        \/ \A i \in DOMAIN f : isna(f[i].email) \/ f[i].email = NumericEmail}

RowTransactions == {f \in RawTransactions : Len(f) <= 1}

(***************************************************************************)
(* ETLPipeline.run                                                         *)
(***************************************************************************)
NoError == "none"

\* validate_email: re.match(pattern, email) raises TypeError unless email is
\* a str; the missing and the empty value return before it
validate_email_raises(email) ==
    IF isna(email) \/ email = EmptyStr THEN NoError
    ELSE IF isinstance_str(email) THEN NoError
    ELSE "TypeError"

\* cleaned_df['email'].apply(validate_email) lets the exception through
clean_customers_data_raises(df) ==
    IF \E i \in DOMAIN df : validate_email_raises(df[i].email) # NoError
    THEN "TypeError"
    ELSE NoError

\* transform_data on frames that have every required column: the exception
\* of the first cleaner that raises
transform_data_raises(customers_df, transactions_df, products_df) ==
    clean_customers_data_raises(customers_df)

\* `except Exception as e: logger.error(...); raise`
reraise_translated(e) == "PipelineError"

reraise(e) == e

Position(stage) ==
    CASE stage = "extract" -> "extracted"
      [] stage = "transform" -> "transformed"
      [] stage = "load" -> "loaded"
      [] OTHER -> "done"

\* a stage raised e in operation op: its handler and the handler of run re-raise
Fail(op, e) ==
    /\ pc' = "failed"
    /\ failed_in' = op
    /\ raised' = e
    /\ propagated' = reraise(reraise(e))

Succeed(stage) ==
    /\ pc' = Position(stage)
    /\ UNCHANGED <<failed_in, raised, propagated>>

NoFrames == <<>>

NoReport ==
    [orphaned_customer_transactions |-> 0, orphaned_product_transactions |-> 0,
     valid_transactions |-> 0, total_transactions |-> 0]

Init ==
    /\ pc = "idle"
    /\ runs = 0
    /\ raw_customers = NoFrames
    /\ raw_transactions = NoFrames
    /\ raw_products = NoFrames
    /\ cleaned_customers = NoFrames
    /\ dedup_transactions = NoFrames
    /\ cleaned_transactions = NoFrames
    /\ cleaned_products = NoFrames
    /\ valid_transactions = NoFrames
    /\ integrity_report = NoReport
    /\ db = EmptyStore
    /\ connection = "none"
    /\ stages = <<>>
    /\ raised = NoError
    /\ propagated = NoError
    /\ failed_in = "none"
    /\ snapshot = EmptyStore
    /\ completed = FALSE
    /\ same_input = FALSE

\* a call of run, through extract_data, on an input directory that holds
\* one of the given files
Extract(customer_files, transaction_files, product_files) ==
    /\ pc \in {"idle", "done", "failed"}
    /\ runs < MaxRuns
    /\ runs' = runs + 1
    /\ stages' = <<"extract">>
    /\ snapshot' = IF pc = "done" THEN db ELSE snapshot
    /\ completed' = (completed \/ pc = "done")
    /\ cleaned_customers' = NoFrames
    /\ dedup_transactions' = NoFrames
    /\ cleaned_transactions' = NoFrames
    /\ cleaned_products' = NoFrames
    /\ valid_transactions' = NoFrames
    /\ integrity_report' = NoReport
    /\ UNCHANGED <<db, connection>>
    /\ \/ /\ \E c \in customer_files : \E t \in transaction_files :
            \E p \in product_files :
               /\ raw_customers' = c
               /\ raw_transactions' = t
               /\ raw_products' = p
               /\ same_input' = (pc = "done" /\ <<c, t, p>> = run_vars)
          /\ pc' = Position("extract")
          /\ failed_in' = "none"
          /\ raised' = NoError
          /\ propagated' = NoError
       \/ /\ Fail("extract_data", "FileNotFoundError")
          /\ raw_customers' = NoFrames
          /\ raw_transactions' = NoFrames
          /\ raw_products' = NoFrames
          /\ same_input' = FALSE

ExtractData == Extract(RunCustomers, RunTransactions, RunProducts)

ExtractOneCustomer ==
    Extract(OneCustomerCustomers, OneCustomerTransactions, OneCustomerProducts)

ExtractTransactions == Extract(BothCustomers, RunTransactions, ProductOnFile)

\* transform_data
ExtractQuality == Extract(QualityCustomers, QualityTransactions, ProductOnFile)

TransformReturns ==
    /\ pc = "extracted"
    /\ transform_data_raises(raw_customers, raw_transactions, raw_products) = NoError
    /\ stages' = Append(stages, "transform")
    /\ UNCHANGED <<runs, run_vars, db, connection, snapshot, completed, same_input>>
    /\ Succeed("transform")
    /\ cleaned_customers' = clean_customers_data(raw_customers)
    /\ dedup_transactions' = deduplicated(raw_transactions)
    /\ cleaned_transactions' = clean_transactions_data(raw_transactions)
    /\ cleaned_products' = clean_products_data(raw_products)
    /\ LET checked == validate_data_integrity(cleaned_customers',
                          cleaned_transactions', cleaned_products')
       IN /\ valid_transactions' = checked.valid_transactions
          /\ integrity_report' = checked.integrity_report

\* a transform stage that opens the store before it cleans
TransformRaises_connected ==
    /\ pc = "extracted"
    /\ stages' = Append(stages, "transform")
    /\ UNCHANGED <<runs, run_vars, db, snapshot, completed, same_input>>
    /\ connection' = connect(connection)
    /\ Fail("transform_data", "KeyError")
    /\ UNCHANGED clean_vars

\* a frame without a required column makes a cleaner raise
TransformRaises ==
    /\ pc = "extracted"
    /\ stages' = Append(stages, "transform")
    /\ UNCHANGED <<runs, run_vars, db, connection, snapshot, completed, same_input>>
    /\ Fail("transform_data", "KeyError")
    /\ UNCHANGED clean_vars

\* a cell makes a cleaner raise: transform_data logs and re-raises
TransformAborts ==
    /\ pc = "extracted"
    /\ transform_data_raises(raw_customers, raw_transactions, raw_products) # NoError
    /\ stages' = Append(stages, "transform")
    /\ UNCHANGED <<runs, run_vars, db, connection, snapshot, completed, same_input>>
    /\ Fail("transform_data",
            transform_data_raises(raw_customers, raw_transactions, raw_products))
    /\ UNCHANGED clean_vars

TransformData == TransformReturns \/ TransformRaises

\* load_data; any store operation may raise (locked or unwritable file)
LoadData ==
    /\ pc = "transformed"
    /\ stages' = Append(stages, "load")
    /\ UNCHANGED <<runs, run_vars, clean_vars, snapshot, completed, same_input>>
    /\ \E fail_at \in Range(LoadOperations) \cup {"none"} : \E emptied \in BOOLEAN :
          /\ db' = load_data(db, cleaned_customers, valid_transactions,
                             cleaned_products, fail_at, emptied)
          /\ connection' = disconnect(IF fail_at = "connect" THEN connection
                                      ELSE connect(connection))
          /\ IF fail_at = "none" THEN Succeed("load")
             ELSE Fail(fail_at, "OperationalError")

\* generate_reports reads the store and writes the summary and the export
GenerateReports ==
    /\ pc = "loaded"
    /\ stages' = Append(stages, "report")
    /\ UNCHANGED <<runs, run_vars, clean_vars, db, snapshot, completed, same_input>>
    /\ connection' = disconnect(connect(connection))
    /\ \/ Succeed("report")
       \/ Fail("generate_reports", "OSError")

\* the cleaners and the integrity check on every raw frame of the bounds;
\* these frames have every required column
InitClean ==
    /\ pc = "extracted"
    /\ runs = 1
    /\ raw_customers \in RawCustomers
    /\ raw_transactions \in RawTransactions
    /\ raw_products \in RawProducts
    /\ cleaned_customers = NoFrames
    /\ dedup_transactions = NoFrames
    /\ cleaned_transactions = NoFrames
    /\ cleaned_products = NoFrames
    /\ valid_transactions = NoFrames
    /\ integrity_report = NoReport
    /\ db = EmptyStore
    /\ connection = "none"
    /\ stages = <<"extract">>
    /\ raised = NoError
    /\ propagated = NoError
    /\ failed_in = "none"
    /\ snapshot = EmptyStore
    /\ completed = FALSE
    /\ same_input = FALSE

NextClean == TransformReturns

SpecClean == InitClean /\ [][NextClean]_vars

\* transform_data on the given files, every one with its required columns
Cleaning(customer_files, transaction_files, product_files) ==
    /\ pc = "extracted"
    /\ runs = 1
    /\ raw_customers \in customer_files
    /\ raw_transactions \in transaction_files
    /\ raw_products \in product_files
    /\ cleaned_customers = NoFrames
    /\ dedup_transactions = NoFrames
    /\ cleaned_transactions = NoFrames
    /\ cleaned_products = NoFrames
    /\ valid_transactions = NoFrames
    /\ integrity_report = NoReport
    /\ db = EmptyStore
    /\ connection = "none"
    /\ stages = <<"extract">>
    /\ raised = NoError
    /\ propagated = NoError
    /\ failed_in = "none"
    /\ snapshot = EmptyStore
    /\ completed = FALSE
    /\ same_input = FALSE

\* the cleaners on files whose cells are of any type read_csv yields
InitRows == Cleaning(RowCustomers, RowTransactions, RawProducts)

NextRows == TransformReturns \/ TransformAborts

SpecRows == InitRows /\ [][NextRows]_vars

\* the cleaners on a products file alone
InitProducts == Cleaning({NoFrames}, {NoFrames}, CategoryProducts)

NextProducts == TransformReturns

SpecProducts == InitProducts /\ [][NextProducts]_vars

Next == ExtractData \/ TransformData \/ LoadData \/ GenerateReports

Spec == Init /\ [][Next]_vars

\* the runs of a store that is fed one customer's files
NextOneCustomer ==
    ExtractOneCustomer \/ TransformData \/ LoadData \/ GenerateReports

SpecOneCustomer == Init /\ [][NextOneCustomer]_vars

\* the runs of a store whose customer and product files stay as they are
NextTransactions ==
    ExtractTransactions \/ TransformData \/ LoadData \/ GenerateReports

SpecTransactions == Init /\ [][NextTransactions]_vars

(***************************************************************************)
(* Properties.                                                             *)
(***************************************************************************)
Transformed == pc \notin {"idle", "extracted"} /\ failed_in \notin {"extract_data", "transform_data"}

Loaded == pc \in {"loaded", "done"}

CustomerKnown(r) == \E i \in DOMAIN cleaned_customers :
                        cleaned_customers[i].customer_id = r.customer_id

ProductKnown(r) == \E i \in DOMAIN cleaned_products :
                       cleaned_products[i].product_id = r.product_id

Labels(df) == {df[i].index : i \in DOMAIN df}

\* C1: every transaction validate_data_integrity returns refers to a customer
\* of the cleaned Customer table and a product of the cleaned Product table,
\* and every cleaned transaction with both references present is returned.
C1_ReferentialClosure ==
    Transformed =>
        /\ \A i \in DOMAIN valid_transactions :
               /\ CustomerKnown(valid_transactions[i])
               /\ ProductKnown(valid_transactions[i])
        /\ \A i \in DOMAIN cleaned_transactions :
               (CustomerKnown(cleaned_transactions[i])
                    /\ ProductKnown(cleaned_transactions[i]))
               => \E j \in DOMAIN valid_transactions :
                      valid_transactions[j] = cleaned_transactions[i]

C1_Witness ==
    /\ Transformed
    /\ valid_transactions # <<>>
    /\ \E i \in DOMAIN cleaned_transactions :
           CustomerKnown(cleaned_transactions[i]) /\ ~ProductKnown(cleaned_transactions[i])

DateValidLabels ==
    {raw_transactions[i].index :
        i \in {k \in DOMAIN raw_transactions :
                  validate_date(raw_transactions[k].transaction_date)}}

RawRow(label) ==
    raw_transactions[CHOOSE i \in DOMAIN raw_transactions :
                         raw_transactions[i].index = label]

\* two raw rows name the same customer, product, calendar date and amount
SameTuple(a, b) ==
    /\ a.customer_id = b.customer_id
    /\ a.product_id = b.product_id
    /\ to_datetime(a.transaction_date) = to_datetime(b.transaction_date)
    /\ a.amount = b.amount

FirstOfItsTuple(label) ==
    \A other \in DateValidLabels :
        other < label => ~SameTuple(RawRow(other), RawRow(label))

\* C9: the output of clean_transactions_data has no two rows that agree on
\* (customer_id, product_id, transaction_date, amount), and the deduplication
\* step keeps, of the date-valid rows that share such a tuple, exactly the
\* first one in input order.
C9_Deduplication ==
    Transformed =>
        /\ \A i \in DOMAIN cleaned_transactions :
               \A j \in DOMAIN cleaned_transactions :
                   i # j =>
                       \/ cleaned_transactions[i].customer_id
                              # cleaned_transactions[j].customer_id
                       \/ cleaned_transactions[i].product_id
                              # cleaned_transactions[j].product_id
                       \/ cleaned_transactions[i].transaction_date
                              # cleaned_transactions[j].transaction_date
                       \/ cleaned_transactions[i].amount
                              # cleaned_transactions[j].amount
        /\ Labels(dedup_transactions)
               = {label \in DateValidLabels : FirstOfItsTuple(label)}
        /\ Labels(cleaned_transactions) \subseteq Labels(dedup_transactions)

\* two date-valid rows written differently share a tuple and differ in
\* quantity; the first is kept
C9_Witness ==
    /\ Transformed
    /\ Len(raw_transactions) = 2
    /\ DateValidLabels = {0, 1}
    /\ raw_transactions[1].transaction_date # raw_transactions[2].transaction_date
    /\ raw_transactions[1].quantity # raw_transactions[2].quantity
    /\ SameTuple(raw_transactions[1], raw_transactions[2])
    /\ Labels(dedup_transactions) = {0}

OrphanedByCustomer ==
    {i \in DOMAIN cleaned_transactions : ~CustomerKnown(cleaned_transactions[i])}

OrphanedByProduct ==
    {i \in DOMAIN cleaned_transactions : ~ProductKnown(cleaned_transactions[i])}

\* C10: the integrity report counts the input transactions, the returned
\* transactions, the inputs whose customer is unknown and the inputs whose
\* product is unknown; a transaction unknown on both sides is in both orphan
\* counts, so total - valid is the number orphaned on some side and is at
\* most the sum of the two orphan counts.
C10_IntegrityReport ==
    Transformed =>
        /\ integrity_report.total_transactions = Len(cleaned_transactions)
        /\ integrity_report.valid_transactions = Len(valid_transactions)
        /\ integrity_report.orphaned_customer_transactions
               = Cardinality(OrphanedByCustomer)
        /\ integrity_report.orphaned_product_transactions
               = Cardinality(OrphanedByProduct)
        /\ integrity_report.total_transactions - integrity_report.valid_transactions
               = Cardinality(OrphanedByCustomer \cup OrphanedByProduct)
        /\ integrity_report.total_transactions - integrity_report.valid_transactions
               <= integrity_report.orphaned_customer_transactions
                      + integrity_report.orphaned_product_transactions

\* a transaction orphaned on both sides next to a valid one
C10_Witness ==
    /\ Transformed
    /\ OrphanedByCustomer \cap OrphanedByProduct # {}
    /\ valid_transactions # <<>>
    /\ integrity_report.total_transactions - integrity_report.valid_transactions
           < integrity_report.orphaned_customer_transactions
                 + integrity_report.orphaned_product_transactions

StoredCustomerIds == {db.transactions[i].customer_id : i \in DOMAIN db.transactions}

RECURSIVE TotalOver(_)
TotalOver(positions) ==
    IF positions = {} THEN 0
    ELSE LET i == CHOOSE k \in positions : TRUE
         IN db.transactions[i].amount + TotalOver(positions \ {i})

TransactionsOf(c) == {i \in DOMAIN db.transactions : db.transactions[i].customer_id = c}

RevenueRowsOf(c) == {r \in db.customer_revenue : r.customer_id = c}

\* C2: after load_transactions and calculate_customer_revenue have succeeded,
\* every customer with a persisted transaction has exactly one CustomerRevenue
\* row, whose total_amount is the sum of the amounts of that customer's
\* persisted transactions and whose transaction_count is their number.
C2_AggregateCorrectness ==
    Loaded =>
        \A c \in StoredCustomerIds :
            /\ Cardinality(RevenueRowsOf(c)) = 1
            /\ \A r \in RevenueRowsOf(c) :
                   /\ r.total_amount = TotalOver(TransactionsOf(c))
                   /\ r.transaction_count = Cardinality(TransactionsOf(c))

\* a run that persists transactions of two customers over the aggregate of
\* an earlier run, which held another total for one of them
C2_Witness ==
    /\ pc = "done"
    /\ completed
    /\ Cardinality(StoredCustomerIds) = 2
    /\ \E c \in StoredCustomerIds :
           \E r \in snapshot.customer_revenue :
               r.customer_id = c /\ r.total_amount # TotalOver(TransactionsOf(c))

\* C3: after a successful run CustomerRevenue has a row for customer C if and
\* only if C has a transaction in the persisted Transaction relation.
C3_RevenueFullyRecomputed ==
    Loaded => {r.customer_id : r \in db.customer_revenue} = StoredCustomerIds

\* C4: a run that follows a successful run on identical input leaves the
\* CustomerRevenue relation the earlier run left.
C4_Idempotence ==
    (pc = "done" /\ same_input) => db.customer_revenue = snapshot.customer_revenue

C4_Witness ==
    /\ pc = "done"
    /\ same_input
    /\ \E r \in db.customer_revenue : r.transaction_count = 2

Relations(store) ==
    <<store.customers, store.products, store.transactions, store.customer_revenue>>

FailedInLoad == pc = "failed" /\ failed_in \in Range(LoadOperations)

\* C5: a run that fails in the load stage leaves the store the previous
\* successful run left.
C5_FailedRunAtomicity ==
    (FailedInLoad /\ completed) => Relations(db) = Relations(snapshot)

StageOrder == <<"extract", "transform", "load", "report">>

StageOf(op) ==
    CASE op = "extract_data" -> "extract"
      [] op = "transform_data" -> "transform"
      [] op = "generate_reports" -> "report"
      [] OTHER -> "load"

\* C6: the stages of a run execute in the order extract, transform, load,
\* report, each at most once and each after the one before it succeeded; when
\* a stage raises it is the last stage of the run, and the exception that
\* leaves run is the one first raised.
C6_StageOrdering ==
    /\ Len(stages) <= Len(StageOrder)
    /\ stages = SubSeq(StageOrder, 1, Len(stages))
    /\ pc = "failed" =>
           /\ raised # NoError
           /\ propagated = raised
           /\ stages[Len(stages)] = StageOf(failed_in)
    /\ pc \notin {"failed", "idle"} =>
           /\ raised = NoError
           /\ propagated = NoError
           /\ pc = Position(stages[Len(stages)])

C6_Witness ==
    /\ pc = "failed"
    /\ failed_in = "load_products"
    /\ stages = <<"extract", "transform", "load">>
    /\ propagated = "OperationalError"

\* the stored table has the frame's rows, in order, without the label column
Persisted(table, df) ==
    /\ Len(table) = Len(df)
    /\ \A i \in DOMAIN table :
           /\ DOMAIN table[i] = (DOMAIN df[i]) \ {"index"}
           /\ \A c \in DOMAIN table[i] : table[i][c] = df[i][c]

\* C7: after a successful run the persisted Customer, Product and Transaction
\* relations hold exactly the rows that run cleaned and validated.
C7_FullReplace ==
    Loaded =>
        /\ Persisted(db.customers, cleaned_customers)
        /\ Persisted(db.products, cleaned_products)
        /\ Persisted(db.transactions, valid_transactions)

\* a second successful run that replaces every base relation of the first
C7_Witness ==
    /\ pc = "done"
    /\ completed
    /\ snapshot.customers # <<>>
    /\ snapshot.products # <<>>
    /\ snapshot.transactions # <<>>
    /\ db.customers # <<>>
    /\ db.customers # snapshot.customers
    /\ db.products # snapshot.products
    /\ db.transactions # snapshot.transactions

\* C8: after create_schema and load_customers no two persisted Customer rows
\* share a customer_id and no two share an email.
C8_CustomerUniqueness ==
    Loaded =>
        \A i \in DOMAIN db.customers : \A j \in DOMAIN db.customers :
            i # j =>
                /\ db.customers[i].customer_id # db.customers[j].customer_id
                /\ db.customers[i].email # db.customers[j].email

(***************************************************************************)
(* DatabaseManager used on its own: a client connects, disconnects and     *)
(* calls the operations in any order.  runs counts the calls, raised and   *)
(* failed_in hold the exception of the last call and the operation that    *)
(* raised it.                                                              *)
(***************************************************************************)
StoreOperations ==
    <<"create_schema", "load_customers", "load_products", "load_transactions",
      "calculate_customer_revenue", "get_data_summary", "execute_query",
      "export_to_csv">>

\* what an operation raises for the connection it finds: create_schema
\* tests `not self.connection`, which only None satisfies; the others go on
\* to self.connection.cursor(), or hand the connection to pandas, which
\* calls cursor() on it
connection_raises(op, conn) ==
    IF conn = "open" THEN NoError
    ELSE IF conn = "closed" THEN "ProgrammingError"
    ELSE IF op = "create_schema" THEN "ConnectionError"
    ELSE "AttributeError"

\* the tables an operation's statements read: execute_query stands for a
\* SELECT on customers, export_to_csv for the export of customer_revenue
TablesRead(op) ==
    CASE op = "calculate_customer_revenue" -> {"transactions", "customer_revenue"}
      [] op = "get_data_summary" -> Tables
      [] op = "execute_query" -> {"customers"}
      [] op = "export_to_csv" -> {"customer_revenue"}
      [] OTHER -> {}

\* the exception of a call of op, NoError when it returns; a statement on
\* a table that does not exist fails in sqlite3, or in pandas for the export
operation_raises(op, conn, store) ==
    IF connection_raises(op, conn) # NoError THEN connection_raises(op, conn)
    ELSE IF \E t \in TablesRead(op) : store.defs[t] = "absent"
         THEN (IF op = "export_to_csv" THEN "DatabaseError" ELSE "OperationalError")
    ELSE NoError

\* the store a call of op that returns leaves
operation(op, store, customers_df, transactions_df, products_df) ==
    CASE op = "create_schema" -> create_schema(store)
      [] op = "load_customers" -> load_customers(store, customers_df)
      [] op = "load_products" -> load_products(store, products_df)
      [] op = "load_transactions" -> load_transactions(store, transactions_df)
      [] op = "calculate_customer_revenue" -> calculate_customer_revenue(store)
      [] OTHER -> store

\* a DatabaseManager on a new file and the cleaned frames its client holds
InitStore ==
    /\ pc = "idle"
    /\ runs = 0
    /\ raw_customers = NoFrames
    /\ raw_transactions = NoFrames
    /\ raw_products = NoFrames
    /\ cleaned_customers \in {clean_customers_data(f) : f \in OneCustomerCustomers}
    /\ dedup_transactions = NoFrames
    /\ cleaned_transactions = NoFrames
    /\ cleaned_products \in {clean_products_data(f) : f \in OneCustomerProducts}
    /\ valid_transactions \in
           {clean_transactions_data(f) : f \in OneCustomerTransactions}
    /\ integrity_report = NoReport
    /\ db = EmptyStore
    /\ connection = "none"
    /\ stages = <<>>
    /\ raised = NoError
    /\ propagated = NoError
    /\ failed_in = "none"
    /\ snapshot = EmptyStore
    /\ completed = FALSE
    /\ same_input = FALSE

Connect ==
    /\ connection' = connect(connection)
    /\ raised' = NoError
    /\ failed_in' = "none"
    /\ UNCHANGED <<pc, runs, run_vars, clean_vars, db, stages, propagated,
                   snapshot, completed, same_input>>

Disconnect ==
    /\ connection' = disconnect(connection)
    /\ raised' = NoError
    /\ failed_in' = "none"
    /\ UNCHANGED <<pc, runs, run_vars, clean_vars, db, stages, propagated,
                   snapshot, completed, same_input>>

Call(op) ==
    /\ runs < MaxCalls
    /\ runs' = runs + 1
    /\ raised' = operation_raises(op, connection, db)
    /\ failed_in' = IF raised' = NoError THEN "none" ELSE op
    /\ db' = IF raised' = NoError
             THEN operation(op, db, cleaned_customers, valid_transactions,
                            cleaned_products)
             ELSE db
    /\ UNCHANGED <<pc, run_vars, clean_vars, connection, stages, propagated,
                   snapshot, completed, same_input>>

NextStore == Connect \/ Disconnect \/ \E op \in Range(StoreOperations) : Call(op)

SpecStore == InitStore /\ [][NextStore]_vars

\* the runs of a store that is fed files with bad rows
NextQuality ==
    ExtractQuality \/ TransformData \/ LoadData \/ GenerateReports

SpecQuality == Init /\ [][NextQuality]_vars

\* validate_output_data: SELECT COUNT(*) FROM customers WHERE email NOT LIKE '%@%'
invalid_emails(store) ==
    Cardinality({i \in DOMAIN store.customers :
                    /\ ~isna(store.customers[i].email)
                    /\ "@" \notin Range(store.customers[i].email)})

\* validate_output_data: SELECT COUNT(*) FROM transactions WHERE amount <= 0
invalid_amounts(store) ==
    Cardinality({i \in DOMAIN store.transactions : store.transactions[i].amount <= 0})

\* C11: on raw tables that have every required column the transform stage
\* returns cleaned tables and raises nothing, whatever the cells of the rows.
C11_RowInvalidityNeverRaises ==
    "transform" \in Range(stages) => (pc = "transformed" /\ raised = NoError)

RawProduct(label) ==
    raw_products[CHOOSE i \in DOMAIN raw_products : raw_products[i].index = label]

\* the canonical categories by their case-folded spellings
Canonical ==
    { <<lower(Electronics), Electronics>>,
      <<lower(Sports), Sports>>,
      <<lower(OfficeSupplies), OfficeSupplies>>,
      <<OfficeUnderscored, OfficeSupplies>> }

\* the canonical category a case-folded value names, else the value with
\* the first letter of each word in upper case
Normalized(folded) ==
    IF \E kv \in Canonical : kv[1] = folded
    THEN (CHOOSE kv \in Canonical : kv[1] = folded)[2]
    ELSE title(folded)

\* C12 as stated: the category of a cleaned product whose raw category is
\* not missing is the canonical category the raw value names when compared
\* case-insensitively, else the raw value title-cased.
C12_CategoryOfRawValue ==
    Transformed =>
        \A i \in DOMAIN cleaned_products :
            LET raw == RawProduct(cleaned_products[i].index).category
            IN ~isna(raw) => cleaned_products[i].category = Normalized(lower(raw))

\* C12 amended: the category of a cleaned product whose raw category is not
\* missing is determined by the raw value with surrounding blanks stripped
\* and letter case folded: the canonical category that value names, else
\* that value title-cased; so all letter-case variants of a raw value get
\* the same category.
C12_CategoryNormalization ==
    Transformed =>
        \A i \in DOMAIN cleaned_products :
            LET raw == RawProduct(cleaned_products[i].index).category
            IN ~isna(raw) =>
                   cleaned_products[i].category = Normalized(lower(strip(raw)))

\* a padded, mixed-case spelling of a known category is mapped
C12_Witness ==
    /\ Transformed
    /\ \E i \in DOMAIN cleaned_products :
           LET raw == RawProduct(cleaned_products[i].index).category
           IN /\ ~isna(raw)
              /\ strip(raw) # raw
              /\ raw # lower(raw)
              /\ cleaned_products[i].category = Sports

\* C16 as stated: a cleaned product whose raw category is missing has a
\* missing category; only a missing product_name is replaced.
C16_MissingCategoryStaysMissing ==
    Transformed =>
        \A i \in DOMAIN cleaned_products :
            LET raw == RawProduct(cleaned_products[i].index)
            IN /\ isna(raw.category) => isna(cleaned_products[i].category)
               /\ isna(raw.product_name) =>
                      cleaned_products[i].product_name = UnknownProduct

\* C16 amended: a cleaned product whose raw category is missing has the
\* category 'Unknown', one whose raw product_name is missing has the
\* product_name 'Unknown Product', and a product_name that is present is
\* kept as it is.
C16_MissingCategoryPlaceholder ==
    Transformed =>
        \A i \in DOMAIN cleaned_products :
            LET raw == RawProduct(cleaned_products[i].index)
            IN /\ isna(raw.category) => cleaned_products[i].category = Unknown
               /\ cleaned_products[i].product_name
                      = (IF isna(raw.product_name) THEN UnknownProduct
                         ELSE raw.product_name)

\* a kept product row whose category and name are both missing
C16_Witness ==
    /\ Transformed
    /\ \E i \in DOMAIN cleaned_products :
           LET raw == RawProduct(cleaned_products[i].index)
           IN isna(raw.category) /\ isna(raw.product_name)

\* the text has the form YYYY-MM-DD: four digits, two digits that number a
\* month, two digits that number a day of that month
ExactIsoDate(s) ==
    /\ ~isna(s)
    /\ Len(s) = 10
    /\ s[5] = "-"
    /\ s[8] = "-"
    /\ AllIn(SubSeq(s, 1, 4), Digit)
    /\ AllIn(SubSeq(s, 6, 7), Digit)
    /\ AllIn(SubSeq(s, 9, 10), Digit)
    /\ Num(SubSeq(s, 6, 7)) \in 1..12
    /\ Num(SubSeq(s, 9, 10)) \in
           1..DaysInMonth(Num(SubSeq(s, 1, 4)), Num(SubSeq(s, 6, 7)))

\* C13: the rows that pass the date validation of clean_transactions_data
\* are the rows whose transaction_date has the exact form YYYY-MM-DD and
\* names a day that exists: every row kept up to deduplication has such a
\* date, and every row with such a date is kept or is the duplicate of a
\* kept row.
C13_ExactDateValidation ==
    Transformed =>
        /\ \A i \in DOMAIN dedup_transactions :
               ExactIsoDate(RawRow(dedup_transactions[i].index).transaction_date)
        /\ \A k \in DOMAIN raw_transactions :
               ExactIsoDate(raw_transactions[k].transaction_date) =>
                   \E i \in DOMAIN dedup_transactions :
                       /\ dedup_transactions[i].customer_id
                              = raw_transactions[k].customer_id
                       /\ dedup_transactions[i].product_id
                              = raw_transactions[k].product_id
                       /\ dedup_transactions[i].amount = raw_transactions[k].amount
                       /\ dedup_transactions[i].transaction_date
                              = to_datetime(raw_transactions[k].transaction_date)

\* the positivity filter of line 135 applied before drop_duplicates
FilteredThenDeduplicated(df) ==
    LET dated == with_valid_dates(df)
    IN drop_duplicates(
           Filter(dated, {i \in DOMAIN dated :
                             dated[i].quantity > 0 /\ dated[i].amount > 0}))

\* C15: the rows clean_transactions_data returns are the rows that remain
\* when the rows with quantity <= 0 or amount <= 0 are dropped first and the
\* duplicates afterwards.
C15_OrderIndependence ==
    Transformed =>
        Range(WithoutIndex(cleaned_transactions))
            = Range(WithoutIndex(FilteredThenDeduplicated(raw_transactions)))

\* C14: after a successful run every persisted Customer row has an email
\* validate_email accepts, every persisted Transaction row has a positive
\* amount and a positive quantity, and the email and amount checks of
\* validate_output_data count no row.
C14_PersistedDataQuality ==
    pc = "done" =>
        /\ \A i \in DOMAIN db.customers :
               /\ validate_email(db.customers[i].email)
               /\ "@" \in Range(db.customers[i].email)
        /\ \A i \in DOMAIN db.transactions :
               db.transactions[i].amount > 0 /\ db.transactions[i].quantity > 0
        /\ invalid_emails(db) = 0
        /\ invalid_amounts(db) = 0

\* a successful run that persists rows from files that held a customer with
\* a bad email and a transaction with an amount of zero
C14_Witness ==
    /\ pc = "done"
    /\ db.customers # <<>>
    /\ db.transactions # <<>>
    /\ \E i \in DOMAIN raw_customers : ~validate_email(raw_customers[i].email)
    /\ \E i \in DOMAIN raw_transactions : raw_transactions[i].amount <= 0

\* C18: once load_data or generate_reports has returned or raised, the
\* connection is not open: it is closed when the stage opened one, and it
\* is as it was when connect itself failed; so no connection is open when
\* run ends.
C18_ConnectionReleased ==
    /\ connection # "open"
    /\ (pc \in {"loaded", "done"} \/ (FailedInLoad /\ failed_in # "connect")
           \/ (pc = "failed" /\ failed_in = "generate_reports"))
       => connection = "closed"

\* load_data raised after it had connected
C18_Witness ==
    /\ pc = "failed"
    /\ failed_in = "load_transactions"
    /\ connection = "closed"

\* C19: a step of a run that has not reached the load stage, the failing
\* step of extract_data or transform_data included, opens no connection and
\* leaves the store as it is; so a run that fails in the extract or the
\* transform stage leaves the store it found.
C19_EarlyFailureLeavesStore ==
    [][("load" \notin Range(stages')) => (db' = db /\ connection' = connection)]_vars

\* a run against the store of a completed run fails in extract_data
C19_Witness ==
    /\ pc = "failed"
    /\ failed_in = "extract_data"
    /\ completed
    /\ db.transactions # <<>>
    /\ db = snapshot

\* C17: a call of a store operation that finds no active connection raises
\* the connection precondition error and leaves the store as it is.
C17_ConnectionRequired ==
    [][(runs' = runs + 1 /\ connection # "open")
           => (raised' = "ConnectionError" /\ db' = db)]_vars

====
